---------------------------- MODULE Spec2Model ----------------------------
(***************************************************************************)
(* Model of the alert monitor of olap74/signal-app.                        *)
(*                                                                         *)
(* The process modelled is main() of src/unnamed/part_000 (the variant     *)
(* that tracks all alert types and stores lastUpdate as RFC3339): load the *)
(* state file, fetch once, reconcile once, then loop fetch -> reconcile -> *)
(* repeat check -> sleep.  The state file, the in-memory State, the wall   *)
(* clock and the position of the process are the state; the server's       *)
(* answers, the failures of the file system and the kills of the process   *)
(* are the environment.                                                    *)
(*                                                                         *)
(* Time is measured in seconds.  A timestamp string is modelled by what    *)
(* the Go time package makes of it: its layout (kind), the instant it      *)
(* denotes (t) and the zone offset it is written with (off, minutes).      *)
(***************************************************************************)
EXTENDS Integers, Sequences, FiniteSets, TLC

(***************************************************************************)
(* Bounds of the model.                                                    *)
(***************************************************************************)
Tick == 30          \* resolution of the wall clock, seconds
MaxNow == 180       \* the clock stops advancing here
MaxAlerts == 2      \* longest activeAlerts list the server returns

(***************************************************************************)
(* Program constants.                                                      *)
(***************************************************************************)
SecPerMin == 60     \* time.Minute, in seconds

Types == {"AIR", "FIRE"}

(***************************************************************************)
(* Timestamp strings.                                                      *)
(*   RFC3339  "2006-01-02T15:04:05Z07:00": instant t written at offset off *)
(*   Local    "2006-01-02 15:04:05": wall-clock digits t, no zone          *)
(*   Empty    ""                                                           *)
(*   Unknown  the sentinel of main()                                       *)
(*   Garbage  any other text                                               *)
(***************************************************************************)
Str(k, t, o) == [kind |-> k, t |-> t, off |-> o]
RFC(t, o) == Str("RFC3339", t, o)
EmptyStr == Str("Empty", 0, 0)
UnknownStr == Str("Unknown", 0, 0)
GarbageStr == Str("Garbage", 0, 0)

\* time.Parse(time.RFC3339, s): err, or the instant with the offset of s
ParseRFC3339(s) ==
    IF s.kind = "RFC3339"
    THEN [err |-> FALSE, t |-> s.t, off |-> s.off]
    ELSE [err |-> TRUE, t |-> 0, off |-> 0]

\* Time.Format(time.RFC3339) of an instant carried in a zone of offset off
FormatRFC3339(tm) == RFC(tm.t, tm.off)

\* Time.Format("2006-01-02 15:04:05"): the wall-clock digits, the zone is lost
FormatLocal(tm) == Str("Local", tm.t + tm.off * SecPerMin, 0)

\* Time.In(location) for a location of fixed offset loc (minutes)
In(tm, loc) == [err |-> FALSE, t |-> tm.t, off |-> loc]

\* time.Now().UTC()
NowUTC(clock) == [err |-> FALSE, t |-> clock, off |-> 0]

\* the instant a string denotes, -1 when it denotes none
Denotes(s) == IF s.kind = "RFC3339" THEN s.t ELSE -1

\* Time.Truncate(time.Minute)
TruncateMinute(t) == t - (t % SecPerMin)

\* int(d.Minutes()): conversion of a float64 to int truncates toward zero
ElapsedMinutes(d) == IF d >= 0 THEN d \div SecPerMin ELSE -((-d) \div SecPerMin)

(***************************************************************************)
(* Go maps: a nil map reads as empty and panics on assignment.             *)
(***************************************************************************)
NoEntries == [x \in {} |-> 0]
NilMap == [nil |-> TRUE, kv |-> NoEntries]
MakeMap == [nil |-> FALSE, kv |-> NoEntries]
MapSet(m, k, v) == [nil |-> FALSE,
                    kv |-> [x \in (DOMAIN m.kv) \cup {k} |-> IF x = k THEN v ELSE m.kv[x]]]
MapHas(m, k) == k \in DOMAIN m.kv


(***************************************************************************)
(* Config (the values the core uses).  AudioFiles has no entry for FIRE:   *)
(* a Go map lookup of a missing key yields "".                             *)
(***************************************************************************)
AudioFiles == [x \in {"AIR"} |-> "air.mp3"]
Lookup(m, k) == IF k \in DOMAIN m THEN m[k] ELSE ""

Config(enable, interval) ==
    [AudioFiles |-> AudioFiles,
     AlertOnEmpty |-> "clear.mp3",
     TimeZone |-> 120,
     RepeatAudioFile |-> "repeat.mp3",
     RepeatIntervalMin |-> interval,
     EnableRepeatAudio |-> enable]

\* a Config whose repeat_audio_file is not set
ConfigNoFile(enable, interval) ==
    [Config(enable, interval) EXCEPT !.RepeatAudioFile = ""]

(***************************************************************************)
(* State, and the JSON document saveState writes.                          *)
(***************************************************************************)
MkState(a, u, p) == [ActiveAlertTypes |-> a, LastUpdate |-> u, LastPlayed |-> p]

\* the process is not running: it has no State
NoState == MkState({}, EmptyStr, NilMap)

\* json.Marshal(state): a nil map is written as null, a time.Time as its instant
Marshal(s) == [active_alert_types |-> s.ActiveAlertTypes,
               last_update |-> s.LastUpdate,
               last_played |-> s.LastPlayed]

\* json.Unmarshal(data, &state): null leaves the map nil
Unmarshal(j) == MkState(j.active_alert_types, j.last_update, j.last_played)

NoData == Marshal(NoState)
Missing == [kind |-> "missing", data |-> NoData]
Torn == [kind |-> "torn", data |-> NoData]
File(j) == [kind |-> "json", data |-> j]

\* a faulty loadState: a null last_played is left a nil map
loadStateKeepsNil(d) ==
    IF d.kind = "missing"
    THEN [err |-> FALSE, state |-> MkState({}, EmptyStr, NilMap)]
    ELSE IF d.kind = "torn"
    THEN [err |-> TRUE, state |-> MkState({}, EmptyStr, MakeMap)]
    ELSE [err |-> FALSE, state |-> Unmarshal(d.data)]

\* loadState(path)
loadState(d) ==
    IF d.kind = "missing"
    THEN [err |-> FALSE, state |-> MkState({}, EmptyStr, NilMap)]
    ELSE IF d.kind = "torn"
    THEN [err |-> TRUE, state |-> MkState({}, EmptyStr, MakeMap)]
    ELSE LET s == Unmarshal(d.data)
         IN  [err |-> FALSE,
              state |-> IF s.LastPlayed.nil
                        THEN MkState(s.ActiveAlertTypes, s.LastUpdate, MakeMap)
                        ELSE s]

\* main(): the state the process starts with
StartState(d) ==
    LET r == loadState(d)
    IN  IF r.err THEN MkState({}, UnknownStr, MakeMap) ELSE r.state

(***************************************************************************)
(* The server's answer and fetchAlerts.                                    *)
(***************************************************************************)
Stamps == {RFC(0, 0), RFC(Tick, 0), GarbageStr}
Alerts == [Type : Types, LastUpdate : Stamps]
AlertLists == UNION {[1..n -> Alerts] : n \in 0..MaxAlerts}
\* the decoded body: no region at all, or the first region; fetchAlerts reads
\* the region's own lastUpdate only when the region has no alert
Regions ==
    {[LastUpdate |-> s, ActiveAlerts |-> <<>>] : s \in Stamps} \cup
    {[LastUpdate |-> RFC(0, 0), ActiveAlerts |-> l] : l \in AlertLists \ {<<>>}}
Bodies == {<<>>} \cup {<<r>> : r \in Regions}

fetchAlerts(regions) ==
    IF Len(regions) > 0
    THEN LET region == regions[1]
         IN  IF Len(region.ActiveAlerts) > 0
             THEN [alerts |-> region.ActiveAlerts,
                   lastUpdate |-> region.ActiveAlerts[1].LastUpdate]
             ELSE [alerts |-> <<>>, lastUpdate |-> region.LastUpdate]
    ELSE [alerts |-> <<>>, lastUpdate |-> EmptyStr]

\* convertToLocalTime(utcTime, location, hasActiveAlerts)
convertToLocalTime(utcTime, location) ==
    LET parsedTime == ParseRFC3339(utcTime)
    IN  IF parsedTime.err THEN utcTime ELSE FormatLocal(In(parsedTime, location))

\* main(): currentAlerts, the key set of the map built from alerts
CurrentAlerts(as) == {as[i].Type : i \in 1..Len(as)}

(***************************************************************************)
(* saveState(state, path): json.Marshal, then os.WriteFile, which opens    *)
(* the file truncating it and then writes.  r is what the file system      *)
(* does: "ok", "open" (the open fails, the file is untouched) or "write"   *)
(* (the write fails after the truncation).                                 *)
(***************************************************************************)
SaveResults == {"ok", "open", "write"}

\* a faulty saveState: the file is never written
saveStateNoWrite(s, d, r) == d

saveState(s, d, r) ==
    CASE r = "ok" -> File(Marshal(s))
      [] r = "open" -> d
      [] r = "write" -> Torn

\* saveState of the variant with runMainLoop in src/main.go: a LastPlayed
\* without entries is set to nil before json.Marshal and made a map again
\* after the write
saveStateVariant(s, d, r) ==
    saveState(IF DOMAIN s.LastPlayed.kv = {}
              THEN MkState(s.ActiveAlertTypes, s.LastUpdate, NilMap)
              ELSE s, d, r)

\* the State that call leaves in memory
savedStateVariant(s) ==
    IF DOMAIN s.LastPlayed.kv = {}
    THEN MkState(s.ActiveAlertTypes, s.LastUpdate, MakeMap)
    ELSE s

(***************************************************************************)
(* The state of the model.                                                 *)
(***************************************************************************)
VARIABLES
    pc,         \* where main() is: down, exited, panic, fetch, upd, ...
    startup,    \* TRUE until the startup reconcile has returned
    config,     \* the Config loaded at startup
    state,      \* the State in memory
    disk,       \* the state file
    now,        \* the wall clock, seconds
    alerts,     \* the alerts of the last successful fetch
    lastUpdate, \* the timestamp of the last successful fetch
    todo,       \* the keys the running range loop has not visited yet
    cur,        \* the alertType of the running loop iteration
    nowCap,     \* the local variable now of checkAndPlayRepeatAudio
    saveErr,    \* the last saveState logged an error
    \* observations of the run, not read by the program
    pre,        \* ActiveAlertTypes when the running reconcile was called
    cues,       \* the cues triggered since the running reconcile was called
    same,       \* the last two reconciles were given the same observation
    actCount,   \* activation cues per type since the type was last absent
    repNow,     \* per type: now at its last repeat cue of this run, or -1
    repKept,    \* per type: LastUpdate is unchanged since that repeat cue
    repLast     \* per type: the minute of its last repeat cue of any run, or -1

vars == <<pc, startup, config, state, disk, now, alerts, lastUpdate, todo, cur,
          nowCap, saveErr, pre, cues, same, actCount, repNow, repKept, repLast>>

Cue(k, t, p) == [kind |-> k, type |-> t, path |-> p]

\* playAudio(path) returns at once, with a log line, when path is ""
Audible(c) == c.path # ""

\* the files a previous run of the program can have left
InitialDisks ==
    {Missing, Torn} \cup
    {File(Marshal(MkState(a, RFC(0, 0), MakeMap))) : a \in SUBSET Types}

InitWith(configs) ==
    /\ pc = "down"
    /\ startup = TRUE
    /\ config \in configs
    /\ state = NoState
    /\ disk \in InitialDisks
    /\ now = 0
    /\ alerts = <<>>
    /\ lastUpdate = EmptyStr
    /\ todo = {}
    /\ cur = ""
    /\ nowCap = 0
    /\ saveErr = FALSE
    /\ pre = {}
    /\ cues = <<>>
    /\ same = FALSE
    /\ actCount = [t \in Types |-> 0]
    /\ repNow = [t \in Types |-> -1]
    /\ repKept = [t \in Types |-> FALSE]
    /\ repLast = [t \in Types |-> -1]

Running == pc \notin {"down", "exited", "panic"}

(***************************************************************************)
(* main(): loadState and the default on a load error.                      *)
(***************************************************************************)
Start ==
    /\ ~Running
    /\ pc' = "fetch"
    /\ startup' = TRUE
    /\ state' = StartState(disk)
    /\ saveErr' = FALSE
    /\ same' = FALSE
    /\ repNow' = [t \in Types |-> -1]
    /\ repKept' = [t \in Types |-> FALSE]
    /\ UNCHANGED <<config, disk, now, alerts, lastUpdate, todo, cur, nowCap,
                   pre, cues, actCount, repLast>>

(***************************************************************************)
(* fetchAlerts fails: fatal at startup, logged and slept over in the loop. *)
(***************************************************************************)
\* a faulty FetchErr: in the loop the cycle goes on with the alerts of the
\* fetch before
FetchErrGoesOn ==
    /\ pc = "fetch"
    /\ pc' = IF startup THEN "exited" ELSE "reconciled"
    /\ state' = IF startup THEN NoState ELSE state
    /\ UNCHANGED <<startup, config, disk, now, alerts, lastUpdate, todo, cur,
                   nowCap, saveErr, pre, cues, same, actCount, repNow, repKept, repLast>>

FetchErr ==
    /\ pc = "fetch"
    /\ pc' = IF startup THEN "exited" ELSE "sleep"
    /\ state' = IF startup THEN NoState ELSE state
    /\ UNCHANGED <<startup, config, disk, now, alerts, lastUpdate, todo, cur,
                   nowCap, saveErr, pre, cues, same, actCount, repNow, repKept, repLast>>

(***************************************************************************)
(* fetchAlerts succeeds; main() builds currentAlerts and calls             *)
(* checkAndHandleStateChange, which computes relevantLastUpdateUTC and     *)
(* sets state.LastUpdate when it differs.                                  *)
(***************************************************************************)
relevantLastUpdate(as, lu) == IF Len(as) > 0 THEN as[1].LastUpdate ELSE lu

\* a faulty relevantLastUpdateUTC: the parse error is ignored and the zero
\* value time.Parse returns with it is formatted
relevantLastUpdateUTCNoCheck(as, lu, clock) ==
    FormatRFC3339(ParseRFC3339(relevantLastUpdate(as, lu)))

\* a faulty relevantLastUpdateUTC: a string that does not parse is kept as
\* it is
relevantLastUpdateUTCRaw(as, lu, clock) ==
    LET parsedTime == ParseRFC3339(relevantLastUpdate(as, lu))
    IN  IF parsedTime.err THEN relevantLastUpdate(as, lu) ELSE FormatRFC3339(parsedTime)

relevantLastUpdateUTC(as, lu, clock) ==
    LET parsedTime == ParseRFC3339(relevantLastUpdate(as, lu))
    IN  FormatRFC3339(IF parsedTime.err THEN NowUTC(clock) ELSE parsedTime)

\* what main() hands over as lastUpdate
lastUpdateLocal(lu) == convertToLocalTime(lu, config.TimeZone)

FetchOK(bodies) ==
    /\ pc = "fetch"
    /\ \E body \in bodies :
         LET got == fetchAlerts(body)
             new == relevantLastUpdateUTC(got.alerts, lastUpdateLocal(got.lastUpdate), now)
             cu  == CurrentAlerts(got.alerts)
         IN  /\ alerts' = got.alerts
             /\ lastUpdate' = got.lastUpdate
             /\ same' = (~startup /\ got.alerts = alerts /\ got.lastUpdate = lastUpdate)
             /\ pre' = state.ActiveAlertTypes
             /\ cues' = <<>>
             /\ todo' = cu
             /\ actCount' = [t \in Types |-> IF t \in cu THEN actCount[t] ELSE 0]
             /\ IF state.LastUpdate # new
                THEN /\ state' = [state EXCEPT !.LastUpdate = new]
                     /\ repKept' = [t \in Types |-> FALSE]
                     /\ pc' = "upd_save"
                ELSE /\ UNCHANGED <<state, repKept>>
                     /\ pc' = "act"
    /\ UNCHANGED <<startup, config, disk, now, cur, nowCap, saveErr, repNow, repLast>>

UpdSave(r) ==
    /\ pc = "upd_save"
    /\ disk' = saveState(state, disk, r)
    /\ saveErr' = (r # "ok")
    /\ pc' = "act"
    /\ UNCHANGED <<startup, config, state, now, alerts, lastUpdate, todo, cur,
                   nowCap, pre, cues, same, actCount, repNow, repKept, repLast>>

(***************************************************************************)
(* checkAndHandleStateChange, the activation pass: range over              *)
(* currentAlerts, each key once, in any order; a type that is not active   *)
(* is set, saved and then played.  Visiting an active type does nothing.   *)
(***************************************************************************)
\* a faulty ToActivate: no look at state.ActiveAlertTypes
ToActivateAll == todo

ToActivate == todo \ state.ActiveAlertTypes

\* a faulty Activate: the new type is not recorded in the map
ActivateForgets ==
    /\ pc = "act"
    /\ \E alertType \in ToActivate :
         /\ todo' = todo \ {alertType}
         /\ cur' = alertType
    /\ pc' = "act_save"
    /\ UNCHANGED <<startup, config, state, disk, now, alerts, lastUpdate, nowCap,
                   saveErr, pre, cues, same, actCount, repNow, repKept, repLast>>

\* a faulty Activate: the cue is played without saving first
ActivatePlaysFirst ==
    /\ pc = "act"
    /\ \E alertType \in ToActivate :
         /\ state' = [state EXCEPT !.ActiveAlertTypes = @ \cup {alertType}]
         /\ todo' = todo \ {alertType}
         /\ cur' = alertType
    /\ pc' = "act_play"
    /\ UNCHANGED <<startup, config, disk, now, alerts, lastUpdate, nowCap,
                   saveErr, pre, cues, same, actCount, repNow, repKept, repLast>>

\* a faulty Activate: a type without an audio file is passed over
ActivateOnlyWithCue ==
    /\ pc = "act"
    /\ \E alertType \in ToActivate :
         /\ state' = IF Lookup(config.AudioFiles, alertType) = ""
                     THEN state
                     ELSE [state EXCEPT !.ActiveAlertTypes = @ \cup {alertType}]
         /\ todo' = todo \ {alertType}
         /\ cur' = alertType
    /\ pc' = "act_save"
    /\ UNCHANGED <<startup, config, disk, now, alerts, lastUpdate, nowCap,
                   saveErr, pre, cues, same, actCount, repNow, repKept, repLast>>

Activate ==
    /\ pc = "act"
    /\ \E alertType \in ToActivate :
         /\ state' = [state EXCEPT !.ActiveAlertTypes = @ \cup {alertType}]
         /\ todo' = todo \ {alertType}
         /\ cur' = alertType
    /\ pc' = "act_save"
    /\ UNCHANGED <<startup, config, disk, now, alerts, lastUpdate, nowCap,
                   saveErr, pre, cues, same, actCount, repNow, repKept, repLast>>

\* a faulty ActSave: a transition that could not be saved is taken back and
\* its cue is not played
ActSaveRollsBack(r) ==
    /\ pc = "act_save"
    /\ disk' = saveState(state, disk, r)
    /\ saveErr' = (r # "ok")
    /\ state' = IF r = "ok" THEN state
                ELSE [state EXCEPT !.ActiveAlertTypes = @ \ {cur}]
    /\ pc' = IF r = "ok" THEN "act_play" ELSE "act"
    /\ UNCHANGED <<startup, config, now, alerts, lastUpdate, todo, cur,
                   nowCap, pre, cues, same, actCount, repNow, repKept, repLast>>

ActSave(r) ==
    /\ pc = "act_save"
    /\ disk' = saveState(state, disk, r)
    /\ saveErr' = (r # "ok")
    /\ pc' = "act_play"
    /\ UNCHANGED <<startup, config, state, now, alerts, lastUpdate, todo, cur,
                   nowCap, pre, cues, same, actCount, repNow, repKept, repLast>>

Bump(n) == IF n < 2 THEN n + 1 ELSE n

ActPlay ==
    /\ pc = "act_play"
    /\ cues' = Append(cues, Cue("activation", cur, Lookup(config.AudioFiles, cur)))
    /\ actCount' = [actCount EXCEPT ![cur] = Bump(@)]
    /\ pc' = "act"
    /\ UNCHANGED <<startup, config, state, disk, now, alerts, lastUpdate, todo,
                   cur, nowCap, saveErr, pre, same, repNow, repKept, repLast>>

(***************************************************************************)
(* The deactivation pass, entered when the activation pass has ended:      *)
(* range over state.ActiveAlertTypes, each key once; a type that is not in *)
(* currentAlerts is deleted, saved and then the alert_on_empty cue is      *)
(* played.                                                                 *)
(***************************************************************************)
ActDone ==
    /\ pc = "act"
    /\ ToActivate = {}
    /\ todo' = state.ActiveAlertTypes
    /\ pc' = "deact"
    /\ UNCHANGED <<startup, config, state, disk, now, alerts, lastUpdate, cur,
                   nowCap, saveErr, pre, cues, same, actCount, repNow, repKept, repLast>>

\* a faulty ToDeactivate: types are cleared only when the observation has no alert
ToDeactivateWhenEmpty == IF CurrentAlerts(alerts) = {} THEN todo ELSE {}

ToDeactivate == todo \ CurrentAlerts(alerts)

\* a faulty Deactivate: the type is not deleted from the map
DeactivateForgets ==
    /\ pc = "deact"
    /\ \E alertType \in ToDeactivate :
         /\ todo' = todo \ {alertType}
         /\ cur' = alertType
    /\ pc' = "deact_save"
    /\ UNCHANGED <<startup, config, state, disk, now, alerts, lastUpdate, nowCap,
                   saveErr, pre, cues, same, actCount, repNow, repKept, repLast>>

Deactivate ==
    /\ pc = "deact"
    /\ \E alertType \in ToDeactivate :
         /\ state' = [state EXCEPT !.ActiveAlertTypes = @ \ {alertType}]
         /\ todo' = todo \ {alertType}
         /\ cur' = alertType
    /\ pc' = "deact_save"
    /\ UNCHANGED <<startup, config, disk, now, alerts, lastUpdate, nowCap,
                   saveErr, pre, cues, same, actCount, repNow, repKept, repLast>>

DeactSave(r) ==
    /\ pc = "deact_save"
    /\ disk' = saveState(state, disk, r)
    /\ saveErr' = (r # "ok")
    /\ pc' = "deact_play"
    /\ UNCHANGED <<startup, config, state, now, alerts, lastUpdate, todo, cur,
                   nowCap, pre, cues, same, actCount, repNow, repKept, repLast>>

\* a faulty DeactPlay: the cue is played only when no type is left active
DeactPlayWhenEmpty ==
    /\ pc = "deact_play"
    /\ cues' = IF state.ActiveAlertTypes = {}
               THEN Append(cues, Cue("cleared", cur, config.AlertOnEmpty))
               ELSE cues
    /\ pc' = "deact"
    /\ UNCHANGED <<startup, config, state, disk, now, alerts, lastUpdate, todo,
                   cur, nowCap, saveErr, pre, same, actCount, repNow, repKept, repLast>>

DeactPlay ==
    /\ pc = "deact_play"
    /\ cues' = Append(cues, Cue("cleared", cur, config.AlertOnEmpty))
    /\ pc' = "deact"
    /\ UNCHANGED <<startup, config, state, disk, now, alerts, lastUpdate, todo,
                   cur, nowCap, saveErr, pre, same, actCount, repNow, repKept, repLast>>

\* both passes have ended: checkAndHandleStateChange returns
Return ==
    /\ pc = "deact"
    /\ ToDeactivate = {}
    /\ todo' = {}
    /\ pc' = "reconciled"
    /\ UNCHANGED <<startup, config, state, disk, now, alerts, lastUpdate, cur,
                   nowCap, saveErr, pre, cues, same, actCount, repNow, repKept, repLast>>

(***************************************************************************)
(* main() after the reconcile: at startup printInitialState and into the   *)
(* loop; in the loop checkAndPlayRepeatAudio, which returns at once unless *)
(* repeat mode is on, has a file and a positive interval.                  *)
(***************************************************************************)
\* a faulty RepeatOn: the file name is not looked at
RepeatOnIgnoresFile ==
    ~(~config.EnableRepeatAudio \/ config.RepeatIntervalMin <= 0)

RepeatOn ==
    ~(~config.EnableRepeatAudio \/ config.RepeatAudioFile = "" \/ config.RepeatIntervalMin <= 0)

AfterReconcile ==
    /\ pc = "reconciled"
    /\ startup' = FALSE
    /\ IF startup
       THEN pc' = "fetch" /\ todo' = todo
       ELSE IF RepeatOn
            THEN pc' = "rep" /\ todo' = state.ActiveAlertTypes
            ELSE pc' = "sleep" /\ todo' = todo
    \* the observations of the cycle are kept while the scheduler runs
    /\ pre' = IF ~startup /\ RepeatOn THEN pre ELSE {}
    /\ cues' = IF ~startup /\ RepeatOn THEN cues ELSE <<>>
    /\ UNCHANGED <<config, state, disk, now, alerts, lastUpdate, cur, nowCap,
                   saveErr, same, actCount, repNow, repKept, repLast>>

(***************************************************************************)
(* checkAndPlayRepeatAudio, one iteration of the range loop.               *)
(***************************************************************************)
\* elapsedMinutes for the clock reading c; -1 stands for every skipped case
elapsedMinutes(c) ==
    LET lastUpdateTime == ParseRFC3339(state.LastUpdate)
    IN  ElapsedMinutes(c - lastUpdateTime.t)

\* a faulty Fires: no look at LastPlayed
FiresUnsuppressed(alertType, c) ==
    /\ ~ParseRFC3339(state.LastUpdate).err
    /\ ~(elapsedMinutes(c) < 0)
    /\ elapsedMinutes(c) % config.RepeatIntervalMin = 0

\* a faulty Fires: nothing before the first full interval (the guard of the
\* variant with runMainLoop in src/main.go)
FiresAfterInterval(alertType, c) ==
    /\ ~ParseRFC3339(state.LastUpdate).err
    /\ elapsedMinutes(c) >= config.RepeatIntervalMin
    /\ elapsedMinutes(c) % config.RepeatIntervalMin = 0
    /\ ~(/\ MapHas(state.LastPlayed, alertType)
         /\ state.LastPlayed.kv[alertType] = TruncateMinute(c))

\* the iteration reaches playAudio
Fires(alertType, c) ==
    /\ ~ParseRFC3339(state.LastUpdate).err
    /\ ~(elapsedMinutes(c) < 0)
    /\ elapsedMinutes(c) % config.RepeatIntervalMin = 0
    /\ ~(/\ MapHas(state.LastPlayed, alertType)
         /\ state.LastPlayed.kv[alertType] = TruncateMinute(c))

RepSkip ==
    /\ pc = "rep"
    /\ \E alertType \in todo :
         /\ ~Fires(alertType, now)
         /\ todo' = todo \ {alertType}
         /\ cur' = alertType
    /\ UNCHANGED <<pc, startup, config, state, disk, now, alerts, lastUpdate,
                   nowCap, saveErr, pre, cues, same, actCount, repNow, repKept, repLast>>

RepPlay ==
    /\ pc = "rep"
    /\ \E alertType \in todo :
         /\ Fires(alertType, now)
         /\ todo' = todo \ {alertType}
         /\ cur' = alertType
         /\ cues' = Append(cues, Cue("repeat", alertType, config.RepeatAudioFile))
         /\ repNow' = [repNow EXCEPT ![alertType] = now]
         /\ repLast' = [repLast EXCEPT ![alertType] = TruncateMinute(now)]
         /\ repKept' = [repKept EXCEPT ![alertType] = TRUE]
    /\ nowCap' = now
    /\ pc' = "rep_rec"
    /\ UNCHANGED <<startup, config, state, disk, now, alerts, lastUpdate,
                   saveErr, pre, same, actCount>>

\* state.LastPlayed[alertType] = now.Truncate(time.Minute): panics on a nil map
RepRecord ==
    /\ pc = "rep_rec"
    /\ IF state.LastPlayed.nil
       THEN /\ pc' = "panic"
            /\ state' = NoState
            /\ todo' = {}
       ELSE /\ pc' = "rep_save"
            /\ state' = [state EXCEPT
                           !.LastPlayed = MapSet(@, cur, TruncateMinute(nowCap))]
            /\ todo' = todo
    /\ UNCHANGED <<startup, config, disk, now, alerts, lastUpdate, cur, nowCap,
                   saveErr, pre, cues, same, actCount, repNow, repKept, repLast>>

RepSave(r) ==
    /\ pc = "rep_save"
    /\ disk' = saveState(state, disk, r)
    /\ saveErr' = (r # "ok")
    /\ pc' = "rep"
    /\ UNCHANGED <<startup, config, state, now, alerts, lastUpdate, todo, cur,
                   nowCap, pre, cues, same, actCount, repNow, repKept, repLast>>

RepDone ==
    /\ pc = "rep"
    /\ todo = {}
    /\ pc' = "sleep"
    /\ pre' = {}
    /\ cues' = <<>>
    /\ UNCHANGED <<startup, config, state, disk, now, alerts, lastUpdate, todo,
                   cur, nowCap, saveErr, same, actCount, repNow, repKept, repLast>>

(***************************************************************************)
(* time.Sleep(requestInterval): the clock moves on.                        *)
(***************************************************************************)
Sleep(intervals) ==
    /\ pc = "sleep"
    /\ \E d \in intervals : now + d <= MaxNow /\ now' = now + d
    /\ pc' = "fetch"
    /\ UNCHANGED <<startup, config, state, disk, alerts, lastUpdate, todo, cur,
                   nowCap, saveErr, pre, cues, same, actCount, repNow, repKept, repLast>>

(***************************************************************************)
(* The environment: the process is killed, or the machine stops, at any    *)
(* point; inside os.WriteFile that leaves the truncated file.  While the   *)
(* process is not running the clock moves on.                              *)
(***************************************************************************)
Killed ==
    /\ pc' = "down"
    /\ state' = NoState
    /\ todo' = {}
    /\ cur' = ""
    /\ nowCap' = 0
    /\ pre' = {}
    /\ cues' = <<>>
    /\ UNCHANGED <<startup, config, now, alerts, lastUpdate, saveErr, same,
                   actCount, repNow, repKept, repLast>>

Crash ==
    /\ Running
    /\ Killed
    /\ UNCHANGED disk

CrashInSave ==
    /\ pc \in {"upd_save", "act_save", "deact_save", "rep_save"}
    /\ Killed
    /\ disk' = Torn

Downtime ==
    /\ ~Running
    /\ now + Tick <= MaxNow
    /\ now' = now + Tick
    /\ UNCHANGED <<pc, startup, config, state, disk, alerts, lastUpdate, todo,
                   cur, nowCap, saveErr, pre, cues, same, actCount, repNow, repKept, repLast>>

(***************************************************************************)
(* Specifications.  Program(R, B) is main() with the file system answering *)
(* saveState from R and the server answering from B.                       *)
(***************************************************************************)
Reconciler(R, B, D) ==
    \/ Start \/ FetchErr \/ FetchOK(B) \/ (\E r \in R : UpdSave(r))
    \/ Activate \/ (\E r \in R : ActSave(r)) \/ ActPlay \/ ActDone
    \/ Deactivate \/ (\E r \in R : DeactSave(r)) \/ DeactPlay
    \/ Return \/ AfterReconcile
    \/ Sleep(D)

Scheduler(R) ==
    \/ RepSkip \/ RepPlay \/ RepRecord \/ (\E r \in R : RepSave(r)) \/ RepDone

\* the server reports every alert of one answer with the same timestamp
StampedLists(stamp) ==
    UNION {[1..n -> [Type : Types, LastUpdate : {stamp}]] : n \in 0..MaxAlerts}
StampedBodies(stamps) ==
    UNION {{<<[LastUpdate |-> s, ActiveAlerts |-> l]>> : l \in StampedLists(s)} : s \in stamps}

\* repeat mode off: the reconciler under every answer and failing saves
Init == InitWith({Config(FALSE, 2)})
Next == Reconciler(SaveResults, Bodies, {3 * Tick})
Spec == Init /\ [][Next]_vars

\* repeat mode on, no failure: the scheduler against the clock
InitRepeat == InitWith({Config(TRUE, 2)})
NextRepeat ==
    \/ Reconciler({"ok"}, StampedBodies({RFC(0, 0), RFC(Tick, 0)}), {Tick, 2 * Tick})
    \/ Scheduler({"ok"})
SpecRepeat == InitRepeat /\ [][NextRepeat]_vars

\* repeat mode on, kills at any point outside a save, every save succeeds
InitCrash == InitWith({Config(TRUE, 2)})
NextCrash ==
    \/ Reconciler({"ok"}, StampedBodies({RFC(0, 0)}), {Tick, 2 * Tick})
    \/ Scheduler({"ok"})
    \/ Crash
    \/ Downtime
SpecCrash == InitCrash /\ [][NextCrash]_vars

\* repeat mode on, a state file that parses or none, kills at any point,
\* inside os.WriteFile too
InitSaveCrash == InitWith({Config(TRUE, 2)}) /\ ~loadState(disk).err
NextSaveCrash ==
    \/ Reconciler({"ok"}, StampedBodies({RFC(0, 0)}), {2 * Tick})
    \/ Scheduler({"ok"})
    \/ Crash
    \/ CrashInSave
    \/ Downtime
SpecSaveCrash == InitSaveCrash /\ [][NextSaveCrash]_vars

(***************************************************************************)
(* saveState and loadState on their own: a State is saved, the file is     *)
(* loaded, and the loaded State is saved again.                            *)
(***************************************************************************)
LastPlayedMaps ==
    {NilMap} \cup
    {[nil |-> FALSE, kv |-> f] :
        f \in UNION {[D -> {0, SecPerMin}] : D \in SUBSET Types}}

States ==
    {MkState(a, u, p) : a \in SUBSET Types,
                        u \in {EmptyStr, UnknownStr, RFC(0, 0), RFC(Tick, 0)},
                        p \in LastPlayedMaps}

InitRoundTrip ==
    /\ pc = "save"
    /\ startup = TRUE
    /\ config = Config(TRUE, 2)
    /\ state \in States
    /\ disk \in InitialDisks
    /\ now = 0
    /\ alerts = <<>>
    /\ lastUpdate = EmptyStr
    /\ todo = {}
    /\ cur = ""
    /\ nowCap = 0
    /\ saveErr = FALSE
    /\ pre = {}
    /\ cues = <<>>
    /\ same = FALSE
    /\ actCount = [t \in Types |-> 0]
    /\ repNow = [t \in Types |-> -1]
    /\ repKept = [t \in Types |-> FALSE]
    /\ repLast = [t \in Types |-> -1]

Save ==
    /\ pc \in {"save", "loaded"}
    /\ disk' = saveState(state, disk, "ok")
    /\ pc' = IF pc = "save" THEN "saved" ELSE "resaved"
    /\ UNCHANGED <<startup, config, state, now, alerts, lastUpdate, todo, cur,
                   nowCap, saveErr, pre, cues, same, actCount, repNow, repKept, repLast>>

SaveVariant ==
    /\ pc \in {"save", "loaded"}
    /\ disk' = saveStateVariant(state, disk, "ok")
    /\ state' = savedStateVariant(state)
    /\ pc' = IF pc = "save" THEN "saved" ELSE "resaved"
    /\ UNCHANGED <<startup, config, now, alerts, lastUpdate, todo, cur,
                   nowCap, saveErr, pre, cues, same, actCount, repNow, repKept, repLast>>

Load ==
    /\ pc = "saved"
    /\ ~loadState(disk).err
    /\ state' = loadState(disk).state
    /\ pc' = "loaded"
    /\ UNCHANGED <<startup, config, disk, now, alerts, lastUpdate, todo, cur,
                   nowCap, saveErr, pre, cues, same, actCount, repNow, repKept, repLast>>

NextRoundTrip == Save \/ SaveVariant \/ Load
SpecRoundTrip == InitRoundTrip /\ [][NextRoundTrip]_vars

\* repeat mode off, every answer, failing saves, and a state file that
\* gives main() a State without active types
InitEmpty == InitWith({Config(FALSE, 2)}) /\ StartState(disk).ActiveAlertTypes = {}
NextEmpty == Reconciler(SaveResults, Bodies, {3 * Tick})
SpecEmpty == InitEmpty /\ [][NextEmpty]_vars

\* a server on which every alert keeps the timestamp it began with (AIR
\* began a Tick after FIRE) and lists each alert once, in any order; there
\* is always some alert
ReportedAt(t) == IF t = "AIR" THEN RFC(Tick, 0) ELSE RFC(0, 0)
SteadyLists ==
    {l \in UNION {[1..n -> Types] : n \in 1..MaxAlerts} :
        \A i, j \in 1..Len(l) : l[i] = l[j] => i = j}
SteadyBodies ==
    {<<[LastUpdate |-> RFC(0, 0),
        ActiveAlerts |-> [i \in 1..Len(l) |->
                            [Type |-> l[i], LastUpdate |-> ReportedAt(l[i])]]]>> :
       l \in SteadyLists}

\* repeat mode on, no failure, against that server
InitSteady == InitWith({Config(TRUE, 2)})
NextSteady ==
    \/ Reconciler({"ok"}, SteadyBodies, {Tick, 2 * Tick})
    \/ Scheduler({"ok"})
SpecSteady == InitSteady /\ [][NextSteady]_vars

(***************************************************************************)
(* checkAndHandleStateChange of the program with runMainLoop in            *)
(* src/main.go, on its own: one alert is selected (the first of type AIR,  *)
(* otherwise the one with the least lastUpdate) and only its type is       *)
(* activated; the deactivation pass is the one of the other programs.      *)
(***************************************************************************)
\* the second selection loop takes the address of its loop variable: with a
\* variable per iteration (Go 1.22 on) that is the alert found, with one
\* variable for the loop (before Go 1.22) it ends as the last alert
Earlier(a, b) == a.LastUpdate.t < b.LastUpdate.t

selectedAlert(as) ==
    IF \E i \in 1..Len(as) : as[i].Type = "AIR"
    THEN {as[CHOOSE i \in 1..Len(as) :
                /\ as[i].Type = "AIR"
                /\ \A j \in 1..(i - 1) : as[j].Type # "AIR"]}
    ELSE IF Len(as) = 0
    THEN {}
    ELSE IF \E i \in 1..Len(as) : Earlier(as[i], as[1])
    THEN {as[CHOOSE i \in 1..Len(as) :
                /\ \A j \in 1..Len(as) : ~Earlier(as[j], as[i])
                /\ \A j \in 1..(i - 1) : Earlier(as[i], as[j])],
          as[Len(as)]}
    ELSE {as[1]}

VariantLists ==
    UNION {[1..n -> [Type : Types, LastUpdate : {RFC(0, 0), RFC(Tick, 0)}]] :
             n \in 0..MaxAlerts}

InitVariant ==
    /\ pc = "select"
    /\ startup = FALSE
    /\ config = Config(FALSE, 2)
    /\ state \in {MkState(a, RFC(0, 0), MakeMap) : a \in SUBSET Types}
    /\ disk = File(Marshal(state))
    /\ now = 0
    /\ alerts \in VariantLists
    /\ lastUpdate = EmptyStr
    /\ todo = {}
    /\ cur = ""
    /\ nowCap = 0
    /\ saveErr = FALSE
    /\ pre = state.ActiveAlertTypes
    /\ cues = <<>>
    /\ same = FALSE
    /\ actCount = [t \in Types |-> 0]
    /\ repNow = [t \in Types |-> -1]
    /\ repKept = [t \in Types |-> FALSE]
    /\ repLast = [t \in Types |-> -1]

\* lines 754 to 783: the selection and the activation of the selected type
SelectActivate ==
    /\ pc = "select"
    /\ IF selectedAlert(alerts) = {}
       THEN UNCHANGED <<state, disk, cues, cur>>
       ELSE \E selected \in selectedAlert(alerts) :
              LET alertType == selected.Type
                  new == MkState(state.ActiveAlertTypes \cup {alertType},
                                 state.LastUpdate,
                                 MapSet(state.LastPlayed, alertType, now))
              IN  /\ cur' = alertType
                  /\ IF alertType \notin state.ActiveAlertTypes
                     THEN /\ state' = savedStateVariant(new)
                          /\ disk' = saveStateVariant(new, disk, "ok")
                          /\ cues' = Append(cues, Cue("activation", alertType,
                                                     Lookup(config.AudioFiles, alertType)))
                     ELSE UNCHANGED <<state, disk, cues>>
    /\ todo' = state'.ActiveAlertTypes
    /\ pc' = "clear"
    /\ UNCHANGED <<startup, config, now, alerts, lastUpdate, nowCap, saveErr,
                   pre, same, actCount, repNow, repKept, repLast>>

\* lines 792 to 800, one iteration that finds a type gone
ClearGone ==
    /\ pc = "clear"
    /\ \E alertType \in todo \ CurrentAlerts(alerts) :
         LET new == [state EXCEPT !.ActiveAlertTypes = @ \ {alertType}]
         IN  /\ state' = savedStateVariant(new)
             /\ disk' = saveStateVariant(new, disk, "ok")
             /\ cues' = Append(cues, Cue("cleared", alertType, config.AlertOnEmpty))
             /\ todo' = todo \ {alertType}
             /\ cur' = alertType
    /\ UNCHANGED <<pc, startup, config, now, alerts, lastUpdate, nowCap, saveErr,
                   pre, same, actCount, repNow, repKept, repLast>>

\* the function returns
Selected ==
    /\ pc = "clear"
    /\ todo \ CurrentAlerts(alerts) = {}
    /\ pc' = "selected"
    /\ todo' = {}
    /\ UNCHANGED <<startup, config, state, disk, now, alerts, lastUpdate, cur,
                   nowCap, saveErr, pre, cues, same, actCount, repNow, repKept, repLast>>

NextVariant == SelectActivate \/ ClearGone \/ Selected
SpecVariant == InitVariant /\ [][NextVariant]_vars

\* repeat mode on, a server whose timestamps may be unparsable
InitGarbled == InitWith({Config(TRUE, 2)})
NextGarbled ==
    \/ Reconciler({"ok"}, StampedBodies({RFC(0, 0), GarbageStr}), {2 * Tick})
    \/ Scheduler({"ok"})
SpecGarbled == InitGarbled /\ [][NextGarbled]_vars

(***************************************************************************)
(* The program of src/main.go that stores lastUpdate as the zone-less      *)
(* string "2006-01-02 15:04:05" (lines 1 to 423): one cycle of its loop at *)
(* one reading of the clock, from the fetch to the end of                  *)
(* checkAndPlayRepeatAudio, under every configured time zone.              *)
(***************************************************************************)
\* the offset of time.LoadLocation(config.TimeZone), minutes east of UTC
TimeZones == {-300, 0, 120}

\* time.Parse("2006-01-02 15:04:05", s): a layout without a zone reads the
\* digits as UTC
ParseLocal(s) ==
    IF s.kind = "Local"
    THEN [err |-> FALSE, t |-> s.t, off |-> 0]
    ELSE [err |-> TRUE, t |-> 0, off |-> 0]

\* time.Now(), carried in the zone of the machine
NowLocal(clock, machine) == [err |-> FALSE, t |-> clock, off |-> machine]

\* checkAndHandleStateChange, lines 325 to 334: the string it goes on with
lastUpdateStored(lu, location, clock, machine) ==
    LET parsedTime == ParseLocal(lu)
    IN  IF parsedTime.err
        THEN FormatLocal(NowLocal(clock, machine))
        ELSE FormatLocal(In(parsedTime, location))

\* checkAndPlayRepeatAudio, lines 372 to 383: elapsedMinutes for the state s
\* and the clock reading c
elapsedMinutesLocal(s, location, c) ==
    LET lastUpdateTime == In(ParseLocal(s.LastUpdate), location)
    IN  ElapsedMinutes(c - lastUpdateTime.t)

\* checkAndPlayRepeatAudio, lines 372 to 392: the iteration reaches playAudio
FiresLocal(alertType, c) ==
    /\ ~ParseLocal(state.LastUpdate).err
    /\ ~(elapsedMinutesLocal(state, config.TimeZone, c) < 0)
    /\ elapsedMinutesLocal(state, config.TimeZone, c) % config.RepeatIntervalMin = 0
    /\ ~(/\ MapHas(state.LastPlayed, alertType)
         /\ state.LastPlayed.kv[alertType] = TruncateMinute(c))

ConfigsLocal == {[Config(TRUE, 2) EXCEPT !.TimeZone = z] : z \in TimeZones}

BodiesLocal ==
    {<<>>} \cup StampedBodies({RFC(0, 0), RFC(2 * Tick, 0), GarbageStr})

\* the state file was written by an earlier cycle that saw 00:00:00Z, or could
\* not be read at the start
InitLocal ==
    /\ pc = "fetch_local"
    /\ startup = FALSE
    /\ config \in ConfigsLocal
    /\ state \in {MkState(a, u, MakeMap) :
                    a \in SUBSET Types,
                    u \in {UnknownStr,
                           lastUpdateStored(convertToLocalTime(RFC(0, 0), config.TimeZone),
                                            config.TimeZone, 0, 0)}}
    /\ disk = File(Marshal(state))
    /\ now \in {k * Tick : k \in 0..(MaxNow \div Tick)}
    /\ alerts = <<>>
    /\ lastUpdate = EmptyStr
    /\ todo = {}
    /\ cur = ""
    /\ nowCap = 0
    /\ saveErr = FALSE
    /\ pre = state.ActiveAlertTypes
    /\ cues = <<>>
    /\ same = FALSE
    /\ actCount = [t \in Types |-> 0]
    /\ repNow = [t \in Types |-> -1]
    /\ repKept = [t \in Types |-> FALSE]
    /\ repLast = [t \in Types |-> -1]

\* main, lines 129 to 146: a fetch that succeeds
FetchLocal ==
    /\ pc = "fetch_local"
    /\ \E regions \in BodiesLocal :
         /\ alerts' = fetchAlerts(regions).alerts
         /\ lastUpdate' = fetchAlerts(regions).lastUpdate
    /\ pc' = "check_local"
    /\ UNCHANGED <<startup, config, state, disk, now, todo, cur, nowCap, saveErr,
                   pre, cues, same, actCount, repNow, repKept, repLast>>

\* main, line 140, and checkAndHandleStateChange, lines 325 to 341
UpdateLocal ==
    /\ pc = "check_local"
    /\ \E machine \in TimeZones :
         LET lu == lastUpdateStored(convertToLocalTime(lastUpdate, config.TimeZone),
                                    config.TimeZone, now, machine)
             new == [state EXCEPT !.LastUpdate = lu]
         IN  /\ state' = new
             /\ disk' = IF state.LastUpdate # lu THEN saveState(new, disk, "ok") ELSE disk
    /\ todo' = CurrentAlerts(alerts) \ state.ActiveAlertTypes
    /\ pc' = "act_local"
    /\ UNCHANGED <<startup, config, now, alerts, lastUpdate, cur, nowCap, saveErr,
                   pre, cues, same, actCount, repNow, repKept, repLast>>

\* lines 344 to 352, one iteration that finds a new type
ActivateLocal ==
    /\ pc = "act_local"
    /\ \E alertType \in todo :
         LET new == [state EXCEPT !.ActiveAlertTypes = @ \cup {alertType}]
         IN  /\ state' = new
             /\ disk' = saveState(new, disk, "ok")
             /\ cues' = Append(cues, Cue("activation", alertType,
                                        Lookup(config.AudioFiles, alertType)))
             /\ todo' = todo \ {alertType}
             /\ cur' = alertType
    /\ UNCHANGED <<pc, startup, config, now, alerts, lastUpdate, nowCap, saveErr,
                   pre, same, actCount, repNow, repKept, repLast>>

\* the first loop ends, the second ranges over state.ActiveAlertTypes
ToDeactivateLocal ==
    /\ pc = "act_local"
    /\ todo = {}
    /\ todo' = state.ActiveAlertTypes \ CurrentAlerts(alerts)
    /\ pc' = "deact_local"
    /\ UNCHANGED <<startup, config, state, disk, now, alerts, lastUpdate, cur,
                   nowCap, saveErr, pre, cues, same, actCount, repNow, repKept, repLast>>

\* lines 355 to 363, one iteration that finds a type gone
DeactivateLocal ==
    /\ pc = "deact_local"
    /\ \E alertType \in todo :
         LET new == [state EXCEPT !.ActiveAlertTypes = @ \ {alertType}]
         IN  /\ state' = new
             /\ disk' = saveState(new, disk, "ok")
             /\ cues' = Append(cues, Cue("cleared", alertType, config.AlertOnEmpty))
             /\ todo' = todo \ {alertType}
             /\ cur' = alertType
    /\ UNCHANGED <<pc, startup, config, now, alerts, lastUpdate, nowCap, saveErr,
                   pre, same, actCount, repNow, repKept, repLast>>

\* checkAndHandleStateChange returns; checkAndPlayRepeatAudio, lines 367 to 371
ToRepeatLocal ==
    /\ pc = "deact_local"
    /\ todo = {}
    /\ IF config.RepeatAudioFile = "" \/ config.RepeatIntervalMin <= 0
       THEN /\ pc' = "done_local"
            /\ todo' = {}
       ELSE /\ pc' = "rep_local"
            /\ todo' = state.ActiveAlertTypes
    /\ UNCHANGED <<startup, config, state, disk, now, alerts, lastUpdate, cur,
                   nowCap, saveErr, pre, cues, same, actCount, repNow, repKept, repLast>>

\* lines 372 to 392, one iteration that ends in a continue or past the if
RepSkipLocal ==
    /\ pc = "rep_local"
    /\ \E alertType \in todo :
         /\ ~FiresLocal(alertType, now)
         /\ todo' = todo \ {alertType}
         /\ cur' = alertType
    /\ UNCHANGED <<pc, startup, config, state, disk, now, alerts, lastUpdate,
                   nowCap, saveErr, pre, cues, same, actCount, repNow, repKept, repLast>>

\* lines 394 to 397, one iteration that plays
RepPlayLocal ==
    /\ pc = "rep_local"
    /\ \E alertType \in todo :
         LET new == [state EXCEPT
                       !.LastPlayed = MapSet(@, alertType, TruncateMinute(now))]
         IN  /\ FiresLocal(alertType, now)
             /\ cues' = Append(cues, Cue("repeat", alertType, config.RepeatAudioFile))
             /\ state' = new
             /\ disk' = saveState(new, disk, "ok")
             /\ todo' = todo \ {alertType}
             /\ cur' = alertType
    /\ UNCHANGED <<pc, startup, config, now, alerts, lastUpdate, nowCap, saveErr,
                   pre, same, actCount, repNow, repKept, repLast>>

\* the range loop ends
RepDoneLocal ==
    /\ pc = "rep_local"
    /\ todo = {}
    /\ pc' = "done_local"
    /\ UNCHANGED <<startup, config, state, disk, now, alerts, lastUpdate, todo, cur,
                   nowCap, saveErr, pre, cues, same, actCount, repNow, repKept, repLast>>

NextLocal ==
    \/ FetchLocal
    \/ UpdateLocal
    \/ ActivateLocal
    \/ ToDeactivateLocal
    \/ DeactivateLocal
    \/ ToRepeatLocal
    \/ RepSkipLocal
    \/ RepPlayLocal
    \/ RepDoneLocal
SpecLocal == InitLocal /\ [][NextLocal]_vars

\* every way of switching the scheduler off, next to one that leaves it on
SchedulerConfigs ==
    {Config(TRUE, 2), Config(FALSE, 2), ConfigNoFile(TRUE, 2),
     Config(TRUE, 0), Config(TRUE, -1)}
InitConfigs == InitWith(SchedulerConfigs)
NextConfigs ==
    \/ Reconciler({"ok"}, StampedBodies({RFC(0, 0)}), {2 * Tick})
    \/ Scheduler({"ok"})
SpecConfigs == InitConfigs /\ [][NextConfigs]_vars

(***************************************************************************)
(* Properties of the reconciler.                                           *)
(***************************************************************************)
Count(k, t) ==
    Cardinality({i \in 1..Len(cues) : cues[i].kind = k /\ cues[i].type = t})

\* C1: right after checkAndHandleStateChange returns, the key set of
\* state.ActiveAlertTypes is exactly the set of alert types of the observation
\* just processed, for every starting state and every sequence of observations.
C1_ActiveEqualsObserved ==
    pc = "reconciled" => state.ActiveAlertTypes = CurrentAlerts(alerts)

\* a reconcile that activated one type and deactivated another has returned
C1_Witness ==
    /\ pc = "reconciled"
    /\ pre \ CurrentAlerts(alerts) # {}
    /\ CurrentAlerts(alerts) \ pre # {}

\* C2: one reconcile call triggers exactly one activation cue, the one mapped to
\* the type, for each type observed and not active before, exactly one cleared
\* cue for each type active before and not observed, and no other cue; a type
\* listed twice in the observation gets no extra cue.
C2_OneCuePerTransition ==
    pc = "reconciled" =>
        /\ \A t \in Types :
             /\ Count("activation", t) =
                  (IF t \in CurrentAlerts(alerts) \ pre THEN 1 ELSE 0)
             /\ Count("cleared", t) =
                  (IF t \in pre \ CurrentAlerts(alerts) THEN 1 ELSE 0)
        /\ \A i \in 1..Len(cues) :
             /\ cues[i].kind \in {"activation", "cleared"}
             /\ cues[i].kind = "activation" =>
                  cues[i].path = Lookup(config.AudioFiles, cues[i].type)
             /\ cues[i].kind = "cleared" => cues[i].path = config.AlertOnEmpty

\* an observation listing one type twice activated it, once, and cleared the
\* type that was active
C2_Witness ==
    /\ pc = "reconciled"
    /\ Len(alerts) = 2
    /\ alerts[1].Type = alerts[2].Type
    /\ alerts[1].Type \notin pre
    /\ pre # {}
    /\ Len(cues) = 2

\* C3: a reconcile given the same observation as the reconcile before it
\* triggers no cue and leaves ActiveAlertTypes as it found it.
C3_SecondReconcileIsQuiet ==
    (pc = "reconciled" /\ same) =>
        /\ cues = <<>>
        /\ state.ActiveAlertTypes = pre

\* the second of two reconciles of one non-empty observation has returned
C3_Witness ==
    /\ pc = "reconciled"
    /\ same
    /\ Cardinality(CurrentAlerts(alerts)) = 2

\* C4: after a successful poll cycle state.LastUpdate, in memory and in the
\* file, denotes the relevant timestamp of the poll: the first alert's when
\* there is an alert, the region's otherwise.
C4_LastUpdateIsRelevant ==
    LET relevant == IF Len(alerts) > 0 THEN alerts[1].LastUpdate ELSE lastUpdate
    IN  (pc = "reconciled" /\ relevant.kind = "RFC3339") =>
            /\ Denotes(state.LastUpdate) = Denotes(relevant)
            /\ disk.kind = "json"
            /\ Denotes(disk.data.last_update) = Denotes(relevant)

\* C5: saveState is called with the transition already in the state, before
\* the cue of the transition; when that save succeeds, the file holds the
\* ActiveAlertTypes of the memory at the moment the cue is triggered.
C5_SavedBeforeCue ==
    /\ pc \in {"act_save", "act_play"} => cur \in state.ActiveAlertTypes
    /\ pc \in {"deact_save", "deact_play"} => cur \notin state.ActiveAlertTypes
    /\ (pc \in {"act_play", "deact_play"} /\ ~saveErr) =>
          /\ disk.kind = "json"
          /\ disk.data.active_alert_types = state.ActiveAlertTypes

\* the cue of a deactivation is about to play while another type stays active
C5_Witness ==
    /\ pc = "deact_play"
    /\ ~saveErr
    /\ state.ActiveAlertTypes # {}
    /\ disk.data.active_alert_types = state.ActiveAlertTypes

Iterates == pc = "rep" /\ todo' # todo
Triggers == Iterates /\ pc' = "rep_rec"

Played(t, c) ==
    /\ MapHas(state.LastPlayed, t)
    /\ state.LastPlayed.kv[t] = TruncateMinute(c)

\* C7: while the elapsed whole minutes since one and the same lastUpdate stay
\* at one multiple of repeatIntervalMin, at most one repeat cue is triggered
\* for a type (stated for polls that are not before lastUpdate).
C7_OncePerBoundary ==
    [][Triggers =>
         ~(/\ repKept[cur']
           /\ repNow[cur'] >= Denotes(state.LastUpdate)
           /\ ElapsedMinutes(repNow[cur'] - Denotes(state.LastUpdate))
                = ElapsedMinutes(now - Denotes(state.LastUpdate)))]_vars

\* C8: an iteration for a type whose lastPlayed is now truncated to the minute
\* triggers no cue and changes neither the state nor the file; and within a
\* run no type gets two repeat cues in one wall-clock minute.
C8_SuppressedWithinMinute ==
    [][/\ (Iterates /\ Played(cur', now)) =>
            /\ pc' = "rep"
            /\ cues' = cues
            /\ state' = state
            /\ disk' = disk
       /\ Triggers =>
            ~(/\ repNow[cur'] >= 0
              /\ TruncateMinute(repNow[cur']) = TruncateMinute(now))]_vars

\* a due reminder has just been suppressed: the type was played at an earlier
\* poll of this minute
C8_Witness ==
    /\ pc = "rep"
    /\ cur \in state.ActiveAlertTypes \ todo
    /\ Played(cur, now)
    /\ repNow[cur] >= 0
    /\ repNow[cur] < now
    /\ elapsedMinutes(now) % config.RepeatIntervalMin = 0

\* C9: no repeat cue is triggered while state.lastUpdate denotes an instant
\* later than now.
C9_NoCueForFutureTimestamp ==
    pc = "rep_rec" => ~(Denotes(state.LastUpdate) > nowCap)

\* C10: with repeat mode on, an iteration triggers the repeat cue exactly when
\* the elapsed whole minutes (the integer part of the elapsed minutes) are not
\* negative, are a multiple of repeatIntervalMin, and lastPlayed of the type is
\* not now truncated to the minute.
C10_CueIffDue ==
    [][Iterates =>
         (Triggers <=>
            /\ state.LastUpdate.kind = "RFC3339"
            /\ ElapsedMinutes(now - Denotes(state.LastUpdate)) >= 0
            /\ ElapsedMinutes(now - Denotes(state.LastUpdate))
                 % config.RepeatIntervalMin = 0
            /\ ~Played(cur', now))]_vars

\* an iteration has passed over a type at an elapsed time that is no multiple
\* of the interval, after the type was played at an earlier multiple
C10_Witness ==
    /\ pc = "rep"
    /\ cur \in state.ActiveAlertTypes \ todo
    /\ repNow[cur] >= 0
    /\ ~Played(cur, now)
    /\ elapsedMinutes(now) % config.RepeatIntervalMin # 0

(***************************************************************************)
(* Properties of the guards and of the error paths.                        *)
(***************************************************************************)
Disabled ==
    \/ ~config.EnableRepeatAudio
    \/ config.RepeatAudioFile = ""
    \/ config.RepeatIntervalMin <= 0

\* C11: with repeat mode off, or no repeat file, or repeatIntervalMin <= 0,
\* the call of checkAndPlayRepeatAudio goes straight to the sleep: no cue, no
\* save, the state and the file as they were; and the loop that takes the
\* modulo is never entered, whatever the state and the clock.
C11_DisabledSchedulerIsNoOp ==
    [][/\ (pc = "reconciled" /\ ~startup /\ Disabled) =>
            /\ pc' = "sleep"
            /\ state' = state
            /\ disk' = disk
            /\ saveErr' = saveErr
            /\ cues' = <<>>
       /\ Disabled => pc' \notin {"rep", "rep_rec", "rep_save"}]_vars

\* the scheduler has been passed over, with a non-positive interval, at a
\* moment when a type is active and LastUpdate is at least a minute old
C11_Witness ==
    /\ pc = "sleep"
    /\ ~startup
    /\ config.EnableRepeatAudio
    /\ config.RepeatAudioFile # ""
    /\ config.RepeatIntervalMin <= 0
    /\ state.ActiveAlertTypes # {}
    /\ Denotes(state.LastUpdate) >= 0
    /\ now >= Denotes(state.LastUpdate) + SecPerMin

\* a step from the fetch of the loop that is not the start of a reconcile:
\* fetchAlerts has returned an error
FetchFails == pc = "fetch" /\ ~startup /\ pc' \notin {"fetch", "upd_save", "act", "down"}

\* C12: when fetchAlerts fails inside the loop, the cycle runs neither
\* checkAndHandleStateChange nor checkAndPlayRepeatAudio: no cue, the state in
\* memory and the file unchanged, the loop sleeps, and the sleep is followed
\* by the next fetch.
C12_FailedFetchSkipsCycle ==
    [][/\ FetchFails =>
            /\ pc' = "sleep"
            /\ state' = state
            /\ disk' = disk
            /\ cues' = cues
            /\ alerts' = alerts
       /\ pc = "sleep" =>
            /\ pc' = "fetch"
            /\ state' = state
            /\ disk' = disk
            /\ cues' = cues]_vars

\* the loop sleeps although a repeat cue is due for an active type: the
\* scheduler was not run in this cycle
C12_Witness ==
    /\ pc = "sleep"
    /\ ~startup
    /\ RepeatOn
    /\ \E alertType \in state.ActiveAlertTypes : Fires(alertType, now)

\* C13: a failure of fetchAlerts never ends the process, neither at the
\* first fetch of main() nor in the loop.
C13_FetchFailureNeverExits == pc # "exited"

\* main() has just loaded the state and has not fetched yet
Loaded == pc = "fetch" /\ startup

\* C14: with no state file, the state main() starts with has no active type,
\* a LastPlayed map that is empty and not nil, and the sentinel as LastUpdate.
C14_MissingFileLoadsEmptyState ==
    (Loaded /\ disk.kind = "missing") =>
        /\ ~loadState(disk).err
        /\ state.ActiveAlertTypes = {}
        /\ ~state.LastPlayed.nil
        /\ state.LastPlayed.kv = NoEntries
        /\ state.LastUpdate = UnknownStr

\* C15: with a state file that is there and cannot be read or parsed, main()
\* ends at the load; it does not reach the first fetch.
C15_CorruptFileIsFatal == ~(Loaded /\ loadState(disk).err)

\* C16: wherever the process is killed during saveState, between the
\* truncation of the file and the end of the write included, the file left
\* is one the next loadState parses.
C16_FileAlwaysParses == ~loadState(disk).err

Relevant == relevantLastUpdate(alerts, lastUpdateLocal(lastUpdate))

\* C18: when relevantLastUpdate does not parse as RFC3339 the reconcile is
\* not abandoned: state.LastUpdate is the current time in UTC, formatted as
\* RFC3339, and both passes are done for the observation.
C18_UnparsableTimestampIsNow ==
    (pc = "reconciled" /\ ParseRFC3339(Relevant).err) =>
        /\ state.LastUpdate = RFC(now, 0)
        /\ state.ActiveAlertTypes = CurrentAlerts(alerts)
        /\ \A t \in Types :
             /\ t \in CurrentAlerts(alerts) \ pre => Count("activation", t) = 1
             /\ t \in pre \ CurrentAlerts(alerts) => Count("cleared", t) = 1

\* an observation whose first alert carries an unparsable timestamp has been
\* reconciled, later than the zero of the clock, with one type activated and
\* one cleared
C18_Witness ==
    /\ pc = "reconciled"
    /\ now > 0
    /\ Len(alerts) > 0
    /\ alerts[1].LastUpdate = GarbageStr
    /\ CurrentAlerts(alerts) \ pre # {}
    /\ pre \ CurrentAlerts(alerts) # {}
    /\ Len(cues) = 2

\* C19: a saveState that fails during a transition is only logged: the
\* transition stays in memory, its cue is triggered all the same, and the
\* loop goes on to the next type; the reconcile returns with the observed
\* types active and the process goes on to the next cycle.
C19_FailedSaveKeepsTransition ==
    [][/\ (pc = "act_save" /\ saveErr') =>
            /\ pc' = "act_play"
            /\ state' = state
            /\ cur \in state.ActiveAlertTypes
       /\ (pc = "deact_save" /\ saveErr') =>
            /\ pc' = "deact_play"
            /\ state' = state
            /\ cur \notin state.ActiveAlertTypes
       /\ (pc = "act_play" /\ saveErr) =>
            /\ cues' = Append(cues, Cue("activation", cur, Lookup(config.AudioFiles, cur)))
            /\ state' = state
            /\ pc' = "act"
       /\ (pc = "deact_play" /\ saveErr) =>
            /\ cues' = Append(cues, Cue("cleared", cur, config.AlertOnEmpty))
            /\ state' = state
            /\ pc' = "deact"
       /\ (pc = "reconciled" /\ saveErr) =>
            /\ state.ActiveAlertTypes = CurrentAlerts(alerts)
            /\ pc' \in {"fetch", "sleep"}
            /\ state' = state]_vars

\* the cue of a transition whose save failed has been triggered, the file
\* does not hold the state of the memory, and the pass has a further type
\* to activate
C19_Witness ==
    /\ pc = "act"
    /\ saveErr
    /\ Len(cues) = 1
    /\ cues[1].type \in state.ActiveAlertTypes
    /\ disk # File(Marshal(state))
    /\ ToActivate # {}

\* the types config.AudioFiles has no entry for
Silent == {t \in Types : Lookup(config.AudioFiles, t) = ""}

\* C20: a type without a configured audio file that appears is activated all
\* the same, in memory and (when the save succeeds) in the file; nothing is
\* played for it; the process neither exits nor panics over it; and when the
\* type disappears it is deactivated, with the alert_on_empty cue.
C20_TypeWithoutCueStillTransitions ==
    /\ (pc = "act_play" /\ cur \in Silent) =>
          /\ cur \in state.ActiveAlertTypes
          /\ ~saveErr => (disk.kind = "json" /\ cur \in disk.data.active_alert_types)
    /\ pc = "reconciled" =>
          \A t \in Silent :
             /\ t \in CurrentAlerts(alerts) => t \in state.ActiveAlertTypes
             /\ \A i \in 1..Len(cues) :
                  (cues[i].type = t /\ cues[i].kind = "activation") => ~Audible(cues[i])
             /\ t \in pre \ CurrentAlerts(alerts) =>
                  /\ t \notin state.ActiveAlertTypes
                  /\ \E i \in 1..Len(cues) :
                       /\ cues[i] = Cue("cleared", t, config.AlertOnEmpty)
                       /\ Audible(cues[i])
    /\ pc # "panic"

\* a type without an audio file has been activated and saved, with no sound,
\* next to the clearing of the type that was active
C20_Witness ==
    /\ pc = "reconciled"
    /\ "FIRE" \in Silent
    /\ "FIRE" \in CurrentAlerts(alerts) \ pre
    /\ "FIRE" \in state.ActiveAlertTypes
    /\ disk = File(Marshal(state))
    /\ Len(cues) = 2
    /\ cues[1] = Cue("activation", "FIRE", "")
    /\ cues[2].kind = "cleared"

(***************************************************************************)
(* Properties of the sequence of transitions.  The activation of a type is *)
(* the step of the first range loop that takes the type up (lines 450 to   *)
(* 452), its deactivation the step of the second that does (461 to 463).   *)
(***************************************************************************)
Activation(t) == pc = "act" /\ pc' = "act_save" /\ cur' = t
Deactivation(t) == pc = "deact" /\ pc' = "deact_save" /\ cur' = t

\* C21: from a State without active types, a type is activated only while
\* it is not active and deactivated only while it is active, and it is
\* active or not only as its last transition left it: its transitions
\* alternate, the first an activation, and ActiveAlertTypes is the set of
\* types whose last transition is an activation.  No reconcile triggers both
\* cues for one type.
C21_TransitionsAlternate ==
    [][\A t \in Types :
         /\ Activation(t) =>
              (t \notin state.ActiveAlertTypes /\ t \in state'.ActiveAlertTypes)
         /\ Deactivation(t) =>
              (t \in state.ActiveAlertTypes /\ t \notin state'.ActiveAlertTypes)
         /\ ((t \in state.ActiveAlertTypes) # (t \in state'.ActiveAlertTypes)) =>
              (Activation(t) \/ Deactivation(t))
         /\ pc = "reconciled" =>
              ~(Count("activation", t) > 0 /\ Count("cleared", t) > 0)]_vars

\* a type activated earlier in this run has just been deactivated, in a
\* reconcile that activated the other type
C21_Witness ==
    /\ pc = "deact_save"
    /\ ~startup
    /\ cur \notin state.ActiveAlertTypes
    /\ state.ActiveAlertTypes # {}
    /\ Len(cues) = 1
    /\ cues[1].kind = "activation"

(***************************************************************************)
(* Properties of state.LastUpdate.                                         *)
(***************************************************************************)
\* C22: over successful polls of a server whose alerts keep their
\* timestamps, with a clock that does not go back, the instant in
\* state.LastUpdate never decreases, also when the first alert of the list
\* ends and another stays.
C22_LastUpdateNeverDecreases ==
    [][(Denotes(state.LastUpdate) >= 0 /\ Denotes(state'.LastUpdate) >= 0) =>
          Denotes(state'.LastUpdate) >= Denotes(state.LastUpdate)]_vars

\* C23: the alert_on_empty cue is triggered only in a reconcile of an
\* observation without any alert.
C23_ClearedCueOnlyWhenEmpty ==
    (\E i \in 1..Len(cues) : cues[i].kind = "cleared") => Len(alerts) = 0

\* C24: in the program that selects one alert per poll, for every
\* observation, with two types too, the key set of ActiveAlertTypes after
\* checkAndHandleStateChange is the set of types of the observation.
C24_VariantActiveEqualsObserved ==
    pc = "selected" => state.ActiveAlertTypes = CurrentAlerts(alerts)

(***************************************************************************)
(* Further properties of the repeat scheduler.                             *)
(***************************************************************************)
\* the LastPlayed entries of the types other than t
OtherPlayed(s, t) == [x \in (DOMAIN s.LastPlayed.kv) \ {t} |-> s.LastPlayed.kv[x]]

\* C25: once the repeat cue of a type is triggered, LastPlayed of the type
\* becomes now truncated to the minute and the file is made equal to the
\* state in memory; checkAndPlayRepeatAudio changes neither
\* ActiveAlertTypes, nor LastUpdate, nor the LastPlayed of another type.
C25_RepeatRecordsAndSaves ==
    [][/\ pc = "rep_rec" =>
            /\ pc' = "rep_save"
            /\ Played(cur, nowCap)'
            /\ OtherPlayed(state', cur) = OtherPlayed(state, cur)
       /\ pc = "rep_save" =>
            /\ pc' = "rep"
            /\ state' = state
            /\ disk' = File(Marshal(state))
       /\ pc \in {"rep", "rep_rec", "rep_save"} =>
            /\ state'.ActiveAlertTypes = state.ActiveAlertTypes
            /\ state'.LastUpdate = state.LastUpdate
       /\ pc = "rep" => state'.LastPlayed = state.LastPlayed]_vars

\* the type has been activated by the reconcile of this cycle
NewlyActive(t) == \E i \in 1..Len(cues) : cues[i] = Cue("activation", t, Lookup(config.AudioFiles, t))

\* the timestamp the observation gives for the type
Reported(t) ==
    alerts[CHOOSE i \in 1..Len(alerts) :
              /\ alerts[i].Type = t
              /\ \A j \in 1..(i - 1) : alerts[j].Type # t].LastUpdate

\* the type is in the observation with a timestamp less than a minute old
Fresh(t) ==
    /\ t \in CurrentAlerts(alerts)
    /\ Denotes(Reported(t)) >= 0
    /\ now - Denotes(Reported(t)) >= 0
    /\ now - Denotes(Reported(t)) < SecPerMin

\* C26 as stated: in a cycle of the loop that activates a type reported less
\* than a minute ago, the scheduler finds 0 elapsed minutes for the type and
\* triggers the repeat cue, after the activation cue.
C26_RepeatRightAfterActivation ==
    [][(Iterates /\ NewlyActive(cur') /\ Fresh(cur')) =>
          /\ elapsedMinutes(now) = 0
          /\ Triggers
          /\ cues' = Append(cues, Cue("repeat", cur', config.RepeatAudioFile))]_vars

\* C26 amended: the same, for a type whose timestamp is the one of the
\* first alert of the observation (the one state.LastUpdate holds) and
\* whose LastPlayed is not the current minute.
C26_RepeatRightAfterFirstAlert ==
    [][(/\ Iterates
        /\ NewlyActive(cur')
        /\ Fresh(cur')
        /\ Reported(cur') = alerts[1].LastUpdate
        /\ ~Played(cur', now)) =>
          /\ elapsedMinutes(now) = 0
          /\ Triggers
          /\ cues' = Append(cues, Cue("repeat", cur', config.RepeatAudioFile))]_vars

\* the repeat cue has just followed the activation cue of a type reported
\* half a minute before
C26_Witness ==
    /\ pc = "rep_rec"
    /\ Len(cues) >= 2
    /\ cues[Len(cues)] = Cue("repeat", cur, config.RepeatAudioFile)
    /\ \E i \in 1..(Len(cues) - 1) : cues[i].kind = "activation" /\ cues[i].type = cur
    /\ Reported(cur) = alerts[1].LastUpdate
    /\ now - Denotes(Reported(cur)) = Tick

\* C27: whenever checkAndHandleStateChange has returned, whatever the
\* observation and the state before, state.LastUpdate parses as RFC3339; so
\* the scheduler, which runs after a reconcile, never finds a LastUpdate
\* that does not parse.
C27_LastUpdateAlwaysParses ==
    pc \in {"reconciled", "rep", "rep_rec", "rep_save"} =>
        ~ParseRFC3339(state.LastUpdate).err

\* the scheduler is about to look at a type after the reconcile of an
\* observation whose timestamp does not parse
C27_Witness ==
    /\ pc = "rep"
    /\ todo # {}
    /\ Len(alerts) > 0
    /\ alerts[1].LastUpdate = GarbageStr
    /\ now > 0

\* C28: the scheduler runs when both passes of the reconcile are over, on
\* the types of the last fetched observation only: no repeat cue is ever
\* triggered for a type that is not in that observation, in the cycle that
\* deactivates the type or later.
C28_NoRepeatForAbsentType ==
    /\ pc \in {"rep", "rep_rec", "rep_save"} =>
          /\ state.ActiveAlertTypes = CurrentAlerts(alerts)
          /\ todo \subseteq CurrentAlerts(alerts)
    /\ pc = "rep_rec" => cur \in CurrentAlerts(alerts)
    /\ \A i \in 1..Len(cues) :
          cues[i].kind = "repeat" => cues[i].type \in CurrentAlerts(alerts)

\* in a cycle that has cleared a type, the repeat cue of the type that stays
\* has been triggered and none for the cleared one
C28_Witness ==
    /\ pc = "rep"
    /\ todo = {}
    /\ Len(cues) = 2
    /\ cues[1].kind = "cleared"
    /\ cues[2].kind = "repeat"
    /\ cues[1].type # cues[2].type
    /\ now > 0

\* C29: started without a state file, the process records LastPlayed of a
\* type whose reminder is due and goes on to the next cycle: the assignment
\* into the LastPlayed map of the loaded State never ends the process.
C29_RecordingNeverPanics == pc # "panic"

\* C30: for each type and each wall-clock minute the repeat cue is
\* triggered at most once over all runs, wherever the process is killed in
\* checkAndPlayRepeatAudio (between the cue and the save of LastPlayed too)
\* and started again within the minute.
C30_OncePerMinuteAcrossRestart ==
    [][Triggers => repLast[cur'] # TruncateMinute(now)]_vars

(***************************************************************************)
(* C31: in the program that stores lastUpdate as a zone-less local string, *)
(* for every configured time zone, when checkAndPlayRepeatAudio is about   *)
(* to look at an active type, the elapsed minutes it computes are the      *)
(* whole minutes between the instant the server reported and now.          *)
(***************************************************************************)
\* the scheduler has an active type to look at, and the server's timestamp
\* of this cycle denotes an instant
ReportedLocal == pc = "rep_local" /\ todo # {} /\ Denotes(lastUpdate) >= 0

C31_ElapsedIsRealMinutes ==
    ReportedLocal =>
        elapsedMinutesLocal(state, config.TimeZone, now)
            = ElapsedMinutes(now - Denotes(lastUpdate))

=============================================================================
